---- MODULE Spec2Model ----
(***************************************************************************)
(* The transportation endpoint of src/main.py: POST /solve-transportation/ *)
(* builds a cost matrix from the request, adds the fictitious customer     *)
(* "Cliente fic.", states the linear program, has it solved and assembles  *)
(* the response matrix.  One request is one behaviour: Init draws the      *)
(* request, the actions are the steps of solve_transportation in order.    *)
(*                                                                         *)
(* Python dicts are modelled with their insertion order: a dict is a       *)
(* record [keys |-> sequence of keys, val |-> function on the keys].       *)
(* Quantities are integers; costs (Python floats) are modelled by small    *)
(* integers, float addition and multiplication by + and *.                 *)
(***************************************************************************)
EXTENDS Integers, Sequences, FiniteSets, TLC

VARIABLES
    customers,    \* data.customers: the request's list of Customer
    locations,    \* data.locations: the request's list of Location
    pc,           \* position in solve_transportation
    costos,       \* cost matrix: dict location -> dict client -> cost
    oferta,       \* dict location -> capacity
    demanda,      \* dict client -> demand, "Cliente fic." added
    values,       \* value of every LpVariable after modelo.solve()
    lp_status,    \* modelo.status after modelo.solve()
    response,     \* the returned dict: status, matrix, total_cost
    http_error    \* the raised HTTPException: status_code, detail

vars == <<customers, locations, pc, costos, oferta, demanda, values,
          lp_status, response, http_error>>

----------------------------------------------------------------------------
(* Bounds of the model *)

MaxCap == 2        \* capacities are drawn from 0..MaxCap
MaxDemand == 2     \* demands are drawn from 0..MaxDemand

BaseCosts == {0, 1}       \* a customer's per-location cost
ShippingCosts == {0, 1}   \* a location's shippingCost

\* Identifiers of the request's customers, in the order of the list.  Within a
\* list the identifiers are distinct; "Cliente fic." is the identifier the code
\* gives the fictitious customer.
CustomerNameLists ==
    { <<>>, <<"A">>, <<"Cliente fic.">>, <<"A", "B">>,
      <<"A", "Cliente fic.">>, <<"Cliente fic.", "A">> }

\* Identifiers of the request's locations, in the order of the list.
\* "Cleveland" and "Harrisburg" are cost fields of Customer, "demand" is a field
\* of Customer that is no cost, "Boston" is no field of Customer at all.
LocationNameLists ==
    { <<"Cleveland">>, <<"demand">>, <<"Boston">>,
      <<"Cleveland", "Harrisburg">>,
      <<"Harrisburg", "Boston">>, <<"demand", "Cleveland">> }

\* The values the solver may leave in a variable of a program it found
\* infeasible: what it leaves is unspecified.
UnsolvedValues == {0, 1}

----------------------------------------------------------------------------
(* The request: pydantic models *)

Customer ==
    [client : {"A", "B", "Cliente fic."},
     Cleveland : BaseCosts, Harrisburg : BaseCosts,
     Chicago : {0}, Trenton : {0}, Louisville : {0},
     demand : 0..MaxDemand]

Location ==
    [location : {"Cleveland", "Harrisburg", "demand", "Boston"},
     capacity : 0..MaxCap, shippingCost : ShippingCosts, generalCost : {0}]

\* The cost fields of Customer
CostFields == {"Cleveland", "Harrisburg", "Chicago", "Trenton", "Louisville"}

CustomerLists ==
    UNION { { cs \in [1..Len(ns) -> Customer] :
                \A i \in 1..Len(ns) : cs[i].client = ns[i] } :
            ns \in CustomerNameLists }

LocationLists ==
    UNION { { ls \in [1..Len(ns) -> Location] :
                \A i \in 1..Len(ns) : ls[i].location = ns[i] } :
            ns \in LocationNameLists }

----------------------------------------------------------------------------
(* Python built-ins *)

Range(s) == { s[i] : i \in DOMAIN s }

EmptyDict == [keys |-> <<>>, val |-> <<>>]

HasKey(d, k) == k \in Range(d.keys)

\* A d[k] = v that leaves an existing key alone, as d.setdefault(k, v) does
SetItemKeepExisting(d, k, v) ==
    IF k \in Range(d.keys) THEN d
    ELSE [keys |-> Append(d.keys, k), val |-> (k :> v) @@ d.val]

\* d[k] = v: a new key is appended, an existing key keeps its position
SetItem(d, k, v) ==
    IF HasKey(d, k)
    THEN [keys |-> d.keys, val |-> [d.val EXCEPT ![k] = v]]
    ELSE [keys |-> Append(d.keys, k), val |-> (k :> v) @@ d.val]

\* {k: v for ...} over a list of <<k, v>> pairs
RECURSIVE DictOf(_)
DictOf(pairs) ==
    IF pairs = <<>> THEN EmptyDict
    ELSE LET n == Len(pairs)
         IN SetItem(DictOf(SubSeq(pairs, 1, n - 1)), pairs[n][1], pairs[n][2])

\* d.values(), in the dict's order
DictValues(d) == [i \in DOMAIN d.keys |-> d.val[d.keys[i]]]

\* sum(...)
RECURSIVE Sum(_)
Sum(s) == IF s = <<>> THEN 0 ELSE Head(s) + Sum(Tail(s))

\* str(n) for an int
Str(n) == ToString(n)

\* getattr(obj, name) finds an attribute
HasAttr(obj, name) == name \in DOMAIN obj

----------------------------------------------------------------------------
(* transform_data_to_cost_matrix *)

shipping_costs(locs) ==
    DictOf([i \in DOMAIN locs |-> <<locs[i].location, locs[i].shippingCost>>])

InitCostMatrix(locs) ==
    DictOf([i \in DOMAIN locs |-> <<locs[i].location, EmptyDict>>])

\* The (customer, location) pairs of the fill loop whose getattr raises
\* AttributeError, as <<index of the customer, index of the location key>>
MissingAttrs(custs, locs) ==
    LET cm == InitCostMatrix(locs)
    IN { p \in (DOMAIN custs) \X (DOMAIN cm.keys) :
           ~HasAttr(custs[p[1]], cm.keys[p[2]]) }

TransformRaises(custs, locs) == MissingAttrs(custs, locs) # {}

\* The location of the first getattr that raises: customers are the outer loop
FirstMissing(custs, locs) ==
    LET cm == InitCostMatrix(locs)
        bad == MissingAttrs(custs, locs)
        first == CHOOSE p \in bad :
                   \A q \in bad : p[1] < q[1] \/ (p[1] = q[1] /\ p[2] <= q[2])
    IN cm.keys[first[2]]

\* str(AttributeError) of pydantic's BaseModel.__getattr__
AttributeErrorText(name) ==
    "'Customer' object has no attribute '" \o name \o "'"

\* The loop over the customers, filling one column per customer
RECURSIVE FillCosts(_, _, _)
FillCosts(cost_matrix, custs, ship) ==
    IF custs = <<>> THEN cost_matrix
    ELSE LET customer == Head(custs)
             filled == [cost_matrix EXCEPT !.val =
                 [loc \in DOMAIN cost_matrix.val |->
                     SetItem(cost_matrix.val[loc], customer.client,
                             customer[loc] + ship.val[loc])]]
         IN FillCosts(filled, Tail(custs), ship)

\* The loop adding the fictitious client with cost 0
AddFictitious(cost_matrix) ==
    [cost_matrix EXCEPT !.val =
        [loc \in DOMAIN cost_matrix.val |->
            SetItem(cost_matrix.val[loc], "Cliente fic.", 0)]]

transform_data_to_cost_matrix(custs, locs) ==
    AddFictitious(FillCosts(InitCostMatrix(locs), custs, shipping_costs(locs)))

----------------------------------------------------------------------------
(* solve_transportation: supply and demand *)

BuildOferta(locs) ==
    DictOf([i \in DOMAIN locs |-> <<locs[i].location, locs[i].capacity>>])

BuildDemanda(custs, of) ==
    LET real == DictOf([i \in DOMAIN custs |->
                           <<custs[i].client, custs[i].demand>>])
    IN SetItem(real, "Cliente fic.",
               Sum(DictValues(of)) - Sum(DictValues(real)))

----------------------------------------------------------------------------
(* solve_transportation: the linear program and its solution *)

Min(a, b) == IF a <= b THEN a ELSE b

\* The keys of the dict `variables`, in the order of the comprehension
VariableKeys(of, dem) ==
    [n \in 1..(Len(of.keys) * Len(dem.keys)) |->
        <<of.keys[((n - 1) \div Len(dem.keys)) + 1],
          dem.keys[((n - 1) % Len(dem.keys)) + 1]>>]

\* lpSum(variables[almacen, cliente] for cliente in demanda) at the point x
SupplyLhs(x, almacen, dem) ==
    Sum([j \in DOMAIN dem.keys |-> x[<<almacen, dem.keys[j]>>]])

\* lpSum(variables[almacen, cliente] for almacen in oferta) at the point x
DemandLhs(x, cliente, of) ==
    Sum([i \in DOMAIN of.keys |-> x[<<of.keys[i], cliente>>]])

\* An objective that leaves the costs out
ObjectiveValueUnweighted(x, cost, of, dem) ==
    Sum([n \in DOMAIN VariableKeys(of, dem) |-> x[VariableKeys(of, dem)[n]]])

\* The objective at the point x
ObjectiveValue(x, cost, of, dem) ==
    Sum([n \in DOMAIN VariableKeys(of, dem) |->
            LET k == VariableKeys(of, dem)[n]
            IN x[k] * cost.val[k[1]].val[k[2]]])

\* The integer points within the variables' bounds: lowBound = 0, and no
\* variable can exceed its supply or its demand constraint.
RECURSIVE Points(_, _, _)
Points(keys, of, dem) ==
    IF keys = <<>> THEN { <<>> }
    ELSE LET k == Head(keys)
         IN { (k :> v) @@ x :
                v \in 0..Min(of.val[k[1]], dem.val[k[2]]),
                x \in Points(Tail(keys), of, dem) }

\* A program stated without its supply constraints
SupplyConstraintsDropped(x, of, dem) == TRUE

SupplyConstraints(x, of, dem) ==
    \A i \in DOMAIN of.keys :
        SupplyLhs(x, of.keys[i], dem) <= of.val[of.keys[i]]

DemandConstraints(x, of, dem) ==
    \A j \in DOMAIN dem.keys :
        DemandLhs(x, dem.keys[j], of) = dem.val[dem.keys[j]]

\* The feasible region of modelo (its integer points: supplies and demands are
\* integers, so the vertices a simplex solver returns are integer points)
FeasibleRegion(of, dem) ==
    { x \in Points(VariableKeys(of, dem), of, dem) :
        SupplyConstraints(x, of, dem) /\ DemandConstraints(x, of, dem) }

\* A program stated without its objective: every feasible point is a solution
AnyFeasiblePoint(cost, of, dem) == FeasibleRegion(of, dem)

\* The solutions modelo.solve() may return for a feasible program: any
\* point of the feasible region at which the objective is least
OptimalSolutions(cost, of, dem) ==
    LET F == FeasibleRegion(of, dem)
        obj == [x \in F |-> ObjectiveValue(x, cost, of, dem)]
    IN { x \in F : \A y \in F : obj[x] <= obj[y] }

\* The values modelo.solve() may leave behind for an infeasible program,
\* modelled by the points that are 0 but for one variable
UnsolvedPoints(of, dem) ==
    LET K == Range(VariableKeys(of, dem))
    IN { [k \in K |-> IF k = one THEN v ELSE 0] :
           one \in K, v \in UnsolvedValues }

\* The values of the variables after modelo.solve()
SolvedValues(cost, of, dem) ==
    IF FeasibleRegion(of, dem) # {}
    THEN OptimalSolutions(cost, of, dem)
    ELSE UnsolvedPoints(of, dem)

\* A solve that reports every program solved
SolveStatusOptimal(of, dem) == 1

\* modelo.status after solve()
SolveStatus(of, dem) == IF FeasibleRegion(of, dem) # {} THEN 1 ELSE -1

\* pulp.LpStatus
LpStatus(code) ==
    CASE code = 1 -> "Optimal"
      [] code = 0 -> "Not Solved"
      [] code = -1 -> "Infeasible"
      [] code = -2 -> "Unbounded"
      [] code = -3 -> "Undefined"

----------------------------------------------------------------------------
(* solve_transportation: the result matrix *)

\* value if value else 0
ValueOrZero(value) == IF value # 0 THEN value ELSE 0

ResultRow(cliente, x, of) ==
    LET shipped == [i \in DOMAIN of.keys |->
                       ValueOrZero(x[<<of.keys[i], cliente>>])]
    IN ("CLIENTE" :> cliente)
       @@ [almacen \in Range(of.keys) |->
              ValueOrZero(x[<<almacen, cliente>>])]
       @@ ("DEMANDA" :> Sum(shipped))

\* A capacity row whose label leaves the fictitious quantity out of the demand
CapacityRowRealDemand(of, dem) ==
    LET total_capacity == Sum(DictValues(of))
    IN ("CLIENTE" :> "CAPACIDAD")
       @@ [almacen \in Range(of.keys) |-> of.val[almacen]]
       @@ ("DEMANDA" :>
              Str(total_capacity) \o " / "
                 \o Str(Sum(DictValues(dem)) - dem.val["Cliente fic."]))

CapacityRow(of, dem) ==
    LET total_capacity == Sum(DictValues(of))
    IN ("CLIENTE" :> "CAPACIDAD")
       @@ [almacen \in Range(of.keys) |-> of.val[almacen]]
       @@ ("DEMANDA" :>
              Str(total_capacity) \o " / " \o Str(Sum(DictValues(dem))))

\* A result matrix that leaves the fictitious customer's row out
ResultMatrixRealOnly(x, of, dem) ==
    LET IsReal(k) == k # "Cliente fic."
        real == SelectSeq(dem.keys, IsReal)
    IN Append([j \in DOMAIN real |-> ResultRow(real[j], x, of)],
              CapacityRow(of, dem))

ResultMatrix(x, of, dem) ==
    Append([j \in DOMAIN dem.keys |-> ResultRow(dem.keys[j], x, of)],
           CapacityRow(of, dem))

----------------------------------------------------------------------------
(* The state machine *)

NoResponse == [status |-> "", matrix |-> <<>>, total_cost |-> 0]
NoError == [status_code |-> 0, detail |-> ""]

\* The request.  A cost field that names none of the request's locations is
\* never read: it is kept at 0.
Init ==
    /\ locations \in LocationLists
    /\ customers \in CustomerLists
    /\ \A i \in DOMAIN customers : \A f \in CostFields :
          (\A j \in DOMAIN locations : locations[j].location # f)
              => customers[i][f] = 0
    /\ pc = "transform"
    /\ costos = EmptyDict
    /\ oferta = EmptyDict
    /\ demanda = EmptyDict
    /\ values = <<>>
    /\ lp_status = 0
    /\ response = NoResponse
    /\ http_error = NoError

\* line 71, transform_data_to_cost_matrix returns
TransformData ==
    /\ pc = "transform"
    /\ ~TransformRaises(customers, locations)
    /\ costos' = transform_data_to_cost_matrix(customers, locations)
    /\ pc' = "balance"
    /\ UNCHANGED <<customers, locations, oferta, demanda, values, lp_status,
                   response, http_error>>

\* line 71 raises, lines 122-123 turn the exception into an HTTPException
RaiseHTTPException ==
    /\ pc = "transform"
    /\ TransformRaises(customers, locations)
    /\ http_error' =
          [status_code |-> 500,
           detail |-> AttributeErrorText(FirstMissing(customers, locations))]
    /\ pc' = "raised"
    /\ UNCHANGED <<customers, locations, costos, oferta, demanda, values,
                   lp_status, response>>

\* lines 72-74
Balance ==
    /\ pc = "balance"
    /\ oferta' = BuildOferta(locations)
    /\ demanda' = BuildDemanda(customers, BuildOferta(locations))
    /\ pc' = "solve"
    /\ UNCHANGED <<customers, locations, costos, values, lp_status, response,
                   http_error>>

\* lines 76-98
SolveModel ==
    /\ pc = "solve"
    /\ lp_status' = SolveStatus(oferta, demanda)
    /\ values' \in SolvedValues(costos, oferta, demanda)
    /\ pc' = "assemble"
    /\ UNCHANGED <<customers, locations, costos, oferta, demanda, response,
                   http_error>>

\* lines 100-121
GenerateResult ==
    /\ pc = "assemble"
    /\ response' =
          [status |-> LpStatus(lp_status),
           matrix |-> ResultMatrix(values, oferta, demanda),
           total_cost |-> ObjectiveValue(values, costos, oferta, demanda)]
    /\ pc' = "returned"
    /\ UNCHANGED <<customers, locations, costos, oferta, demanda, values,
                   lp_status, http_error>>

Next ==
    \/ TransformData
    \/ RaiseHTTPException
    \/ Balance
    \/ SolveModel
    \/ GenerateResult

Spec == Init /\ [][Next]_vars

----------------------------------------------------------------------------
(* Vocabulary of the properties *)

Returned == pc = "returned"

Successful == Returned /\ response.status = "Optimal"

LocationNames == { locations[i].location : i \in DOMAIN locations }

\* Sum of the capacities of the request's locations
TotalCapacity == Sum([i \in DOMAIN locations |-> locations[i].capacity])

\* Sum of the demands of the request's customers
TotalDemand == Sum([i \in DOMAIN customers |-> customers[i].demand])

\* The request holds a customer whose identifier is the fictitious one
HasFicCustomer == \E i \in DOMAIN customers : customers[i].client = "Cliente fic."

\* The rows of the response matrix but the last, and the last
CustomerRows == SubSeq(response.matrix, 1, Len(response.matrix) - 1)
SummaryRow == response.matrix[Len(response.matrix)]

\* What a row ships in all, and what a location ships in all
RowShipped(row) ==
    Sum([i \in DOMAIN locations |-> row[locations[i].location]])
LocationShipped(loc) ==
    Sum([j \in DOMAIN CustomerRows |-> CustomerRows[j][loc]])

\* Cost of the returned allocation under the cost matrix of the request
ShippedCost ==
    Sum([j \in DOMAIN CustomerRows |->
           Sum([i \in DOMAIN locations |->
                  CustomerRows[j][locations[i].location]
                  * costos.val[locations[i].location]
                          .val[CustomerRows[j]["CLIENTE"]]])])

----------------------------------------------------------------------------
(* C1 *)

----------------------------------------------------------------------------
(* C2 *)

\* An allocation y of the program meets every demand within every capacity
MeetsRequest(y) ==
    /\ \A i \in DOMAIN locations :
          Sum([j \in DOMAIN demanda.keys |->
                 y[<<locations[i].location, demanda.keys[j]>>]])
              <= locations[i].capacity
    /\ \A j \in DOMAIN demanda.keys :
          Sum([i \in DOMAIN locations |->
                 y[<<locations[i].location, demanda.keys[j]>>]])
              = demanda.val[demanda.keys[j]]

CostOf(y) ==
    Sum([j \in DOMAIN demanda.keys |->
           Sum([i \in DOMAIN locations |->
                  y[<<locations[i].location, demanda.keys[j]>>]
                  * costos.val[locations[i].location].val[demanda.keys[j]]])])

\* C2: when total capacity is at least total customer demand, the status is
\* Optimal and no non-negative allocation that meets every demand within every
\* capacity costs strictly less than the returned one.
Thm_C2 ==
    (Returned /\ TotalCapacity >= TotalDemand) =>
        /\ response.status = "Optimal"
        /\ \A y \in Points(VariableKeys(oferta, demanda), oferta, demanda) :
              MeetsRequest(y) => CostOf(y) >= ShippedCost

\* Some allocation that meets the request costs more than the returned one, and
\* the returned one ships from both locations
Wit_C2 ==
    /\ Returned /\ TotalCapacity >= TotalDemand
    /\ response.status = "Optimal"
    /\ Len(locations) = 2 /\ ~HasFicCustomer
    /\ ShippedCost > 0
    /\ \E y \in Points(VariableKeys(oferta, demanda), oferta, demanda) :
          MeetsRequest(y) /\ CostOf(y) > ShippedCost
    /\ \E j \in DOMAIN CustomerRows :
          /\ CustomerRows[j]["CLIENTE"] # "Cliente fic."
          /\ \A loc \in LocationNames : CustomerRows[j][loc] > 0

----------------------------------------------------------------------------
(* C3 *)

\* C3 as stated: a request whose customers demand more than the locations can
\* supply never returns a result.
CX_C3 == (TotalDemand > TotalCapacity) => ~Returned

\* C3, amended: such a request raises no error for being infeasible (the only
\* error is the missing attribute of the cost matrix); it returns a result
\* whose status is "Infeasible", with a matrix and a total cost.
Thm_C3 ==
    (TotalDemand > TotalCapacity) =>
        /\ pc = "raised" =>
              \E loc \in LocationNames \ CostFields :
                 http_error.detail = AttributeErrorText(loc)
        /\ Returned =>
              /\ response.status = "Infeasible"
              /\ Len(response.matrix) = Len(demanda.keys) + 1

Wit_C3 ==
    /\ Returned /\ TotalDemand > TotalCapacity
    /\ response.status = "Infeasible"
    /\ Len(customers) = 2 /\ Len(locations) = 2
    /\ TotalCapacity > 0

----------------------------------------------------------------------------
(* C4 *)

\* C4 as stated: the matrix transform_data_to_cost_matrix returns holds, for
\* every location and every customer of the request, the customer's cost for
\* the location plus the location's shippingCost, and 0 for the fictitious
\* customer.
CX_C4 ==
    (pc \notin {"transform", "raised"}) =>
        \A i \in DOMAIN locations :
            LET loc == locations[i].location
            IN /\ costos.val[loc].val["Cliente fic."] = 0
               /\ loc \in CostFields =>
                     \A c \in DOMAIN customers :
                        costos.val[loc].val[customers[c].client]
                            = customers[c][loc] + locations[i].shippingCost

----------------------------------------------------------------------------
(* C5 *)

\* C5 as stated: when total capacity is at least total demand, the balanced
\* demand vector holds the customers of the request and one fictitious entry,
\* whose quantity is total capacity minus total demand, and its sum is the
\* sum of the supply vector.
CX_C5 ==
    (pc \in {"solve", "assemble", "returned"}
       /\ TotalCapacity >= TotalDemand) =>
        /\ HasKey(demanda, "Cliente fic.")
        /\ demanda.val["Cliente fic."] = TotalCapacity - TotalDemand
        /\ Sum(DictValues(oferta)) = Sum(DictValues(demanda))

----------------------------------------------------------------------------
(* C6 *)

\* C6 as stated: the matrix of a successful solve is one row per customer of
\* the request, none for the fictitious customer, then the CAPACIDAD row; a
\* customer's row holds what each location ships to it and its demand.
CX_C6 ==
    Successful =>
        /\ Len(response.matrix) = Len(customers) + 1
        /\ SummaryRow["CLIENTE"] = "CAPACIDAD"
        /\ \A j \in DOMAIN customers :
              /\ response.matrix[j]["CLIENTE"] = customers[j].client
              /\ response.matrix[j]["DEMANDA"] = customers[j].demand

\* C6, amended: the matrix of a successful solve is one row per entry of the
\* balanced demand vector, in its order, the entry of "Cliente fic." included,
\* then the CAPACIDAD row; a row holds what each location ships to its
\* customer and a DEMANDA equal to the entry's quantity, which for a request
\* customer not named "Cliente fic." is its demand.
Thm_C6 ==
    Successful =>
        /\ Len(response.matrix) = Len(demanda.keys) + 1
        /\ SummaryRow["CLIENTE"] = "CAPACIDAD"
        /\ \A j \in DOMAIN demanda.keys :
              /\ response.matrix[j]["CLIENTE"] = demanda.keys[j]
              /\ response.matrix[j]["DEMANDA"] = demanda.val[demanda.keys[j]]
              /\ response.matrix[j]["DEMANDA"] = RowShipped(response.matrix[j])
              /\ \A loc \in LocationNames :
                    response.matrix[j][loc] = values[<<loc, demanda.keys[j]>>]
        /\ \E j \in DOMAIN CustomerRows :
              CustomerRows[j]["CLIENTE"] = "Cliente fic."
        /\ \A i \in DOMAIN customers :
              customers[i].client # "Cliente fic." =>
                 /\ response.matrix[i]["CLIENTE"] = customers[i].client
                 /\ response.matrix[i]["DEMANDA"] = customers[i].demand
        /\ ~HasFicCustomer => Len(response.matrix) = Len(customers) + 2

Wit_C6 ==
    /\ Successful
    /\ Len(customers) = 2 /\ ~HasFicCustomer /\ Len(locations) = 2
    /\ Len(response.matrix) = 4
    /\ response.matrix[3]["CLIENTE"] = "Cliente fic."
    /\ response.matrix[3]["DEMANDA"] > 0
    /\ response.matrix[1]["DEMANDA"] > 0

----------------------------------------------------------------------------
(* C7 *)

\* C7 as stated: the CAPACIDAD row of a successful solve lists each
\* location's capacity, and its DEMANDA is "<total capacity> / <sum of the
\* demands of the request's customers>".
CX_C7 ==
    Successful =>
        /\ \A i \in DOMAIN locations :
              SummaryRow[locations[i].location] = locations[i].capacity
        /\ SummaryRow["DEMANDA"]
              = Str(TotalCapacity) \o " / " \o Str(TotalDemand)

\* The sum of the balanced demand vector, the fictitious quantity counted
BalancedDemand ==
    Sum([i \in DOMAIN customers |->
           IF customers[i].client = "Cliente fic." THEN 0
           ELSE customers[i].demand])
    + (TotalCapacity - TotalDemand)

\* C7, amended: the CAPACIDAD row of a successful solve lists each location's
\* capacity, and its DEMANDA is "<total capacity> / <sum of the balanced
\* demand vector>", the fictitious quantity counted: both numbers are the
\* total capacity unless a request customer is named "Cliente fic.".
Thm_C7 ==
    Successful =>
        /\ SummaryRow["CLIENTE"] = "CAPACIDAD"
        /\ \A i \in DOMAIN locations :
              SummaryRow[locations[i].location] = locations[i].capacity
        /\ SummaryRow["DEMANDA"]
              = Str(TotalCapacity) \o " / " \o Str(BalancedDemand)
        /\ ~HasFicCustomer =>
              SummaryRow["DEMANDA"]
                 = Str(TotalCapacity) \o " / " \o Str(TotalCapacity)

\* Capacity is left over, and the label counts it as demand
Wit_C7 ==
    /\ Successful /\ ~HasFicCustomer
    /\ TotalDemand = 1 /\ TotalCapacity = 3
    /\ SummaryRow["DEMANDA"] = "3 / 3"

----------------------------------------------------------------------------
(* C8 *)

\* C8 as stated: a request in which some customer has no cost field for a
\* declared location fails: it raises the HTTP error, with status code 500
\* and a message, and goes no further than the cost matrix.
CX_C8 ==
    (customers # <<>> /\ LocationNames \ CostFields # {}) =>
        /\ pc \in {"transform", "raised"}
        /\ pc = "raised" =>
              http_error.status_code = 500 /\ http_error.detail # ""

----------------------------------------------------------------------------
(* C9 *)

\* C9: the total_cost of a successful solve is the sum, over the rows of the
\* returned matrix (the fictitious customer's included) and the locations, of
\* the quantity shipped times the entry of the request's cost matrix.
Thm_C9 == Successful => response.total_cost = ShippedCost

Wit_C9 ==
    /\ Successful
    /\ Len(locations) = 2 /\ Len(customers) = 2
    /\ response.total_cost >= 3
    /\ \E j \in DOMAIN CustomerRows :
          /\ CustomerRows[j]["CLIENTE"] = "Cliente fic."
          /\ CustomerRows[j]["DEMANDA"] > 0

----------------------------------------------------------------------------
(* C10 *)

\* The demand of the request customer named "Cliente fic."
FicCustomerDemand ==
    Sum([i \in DOMAIN customers |->
           IF customers[i].client = "Cliente fic."
           THEN customers[i].demand ELSE 0])

\* C10: when a request customer is named "Cliente fic.", the cost matrix holds
\* 0 under that identifier for every location, the demand stored under it is
\* total capacity minus the demands of all request customers, and the
\* balanced demand vector sums to total capacity minus that customer's demand.
Thm_C10 ==
    HasFicCustomer =>
        /\ pc \notin {"transform", "raised"} =>
              \A loc \in LocationNames :
                 costos.val[loc].val["Cliente fic."] = 0
        /\ pc \in {"solve", "assemble", "returned"} =>
              /\ demanda.val["Cliente fic."] = TotalCapacity - TotalDemand
              /\ Len(demanda.keys) = Len(customers)
              /\ Sum(DictValues(demanda)) = TotalCapacity - FicCustomerDemand

\* The overwritten customer had a cost and a demand of its own
Wit_C10 ==
    /\ HasFicCustomer /\ pc = "solve"
    /\ Len(customers) = 2 /\ customers[1].client = "Cliente fic."
    /\ customers[1].demand = 2 /\ customers[1].Cleveland = 1
    /\ "Cleveland" \in LocationNames
    /\ TotalCapacity = 3 /\ TotalDemand = 3
    /\ demanda.val["Cliente fic."] = 0
    /\ Sum(DictValues(demanda)) = 1

====
